---------------------------- MODULE Spec2Model ----------------------------
(***************************************************************************)
(* State-machine model of copr-to-gh-release.py: the build collector       *)
(* (get_builds), the artifact resolver (version_files), the tag mapper     *)
(* (normalize_tag, get_tags), the downloader (get_file, get_files) and the *)
(* release publisher (the tag loop of main).                               *)
(*                                                                         *)
(* Strings the program takes apart (versions, tags, chroots, URLs, file    *)
(* names) are sequences of tokens, so that slicing, basename/dirname and   *)
(* formatting are computed rather than assumed.  None and "" are both the  *)
(* empty sequence (or "" for an atomic name, 0 for a timestamp): the code  *)
(* only ever tests them for truthiness.                                    *)
(***************************************************************************)
EXTENDS Integers, Sequences, FiniteSets, Bags, TLC

\* ------------------------------------------------------------ bounds
\* Longest build listing the API answers with.
MaxBuilds == 2
\* Number of listing fetches (scans) explored; the wait loop itself is unbounded.
MaxScans == 2
\* Longest tag list `git tag -l` answers with.
MaxTags == 2

\* ------------------------------------------------------------ program constants
max_workers == 10
spin_loop_delay == 30

\* `sys` is used at line 201 but is not among the imported modules.
ImportedModules ==
    {"argparse", "re", "tempfile", "concurrent.futures.thread", "os", "os.path",
     "pprint", "subprocess", "time", "requests"}

\* ------------------------------------------------------------ string helpers
RECURSIVE IndexOf(_, _, _)
\* str.index(c): the first position >= i holding c, 0 when there is none.
IndexOf(s, c, i) ==
    IF i > Len(s) THEN 0
    ELSE IF s[i] = c THEN i
    ELSE IndexOf(s, c, i + 1)

RECURSIVE RIndexOf(_, _, _)
\* str.rindex(c): the last position <= i holding c, 0 when there is none.
RIndexOf(s, c, i) ==
    IF i < 1 THEN 0
    ELSE IF s[i] = c THEN i
    ELSE RIndexOf(s, c, i - 1)

Min(a, b) == IF a < b THEN a ELSE b

\* A URL is its sequence of path components.
basename(path) == IF Len(path) = 0 THEN <<>> ELSE path[Len(path)]
dirname(path) == IF Len(path) = 0 THEN <<>> ELSE SubSeq(path, 1, Len(path) - 1)

\* ------------------------------------------------------------ inputs: the build listing
package_name == "pkg"
REPO_URL == "repo"

X86 == <<"fedora", "-", "39", "-", "x86_64">>
ARM == <<"fedora", "-", "39", "-", "aarch64">>

V1 == <<"1">>
V2 == <<"2">>
E7V1 == <<"7", ":", "1">>
NoVersion == <<>>
NoUrl == <<>>

\* https://.../srpm-builds/<id>/<name>-<version>.src.rpm, one entry per path component.
SrpmUrl(id, name, ver) ==
    << <<"srpm-builds">>, <<id>>, <<name, "-">> \o ver \o <<".src.rpm">> >>

Build(id, state, name, ver, url, ended_on, chroots) ==
    [id |-> id, state |-> state,
     source_package |-> [name |-> name, version |-> ver, url |-> url],
     ended_on |-> ended_on, chroots |-> chroots, repo_url |-> REPO_URL]

\* The builds a listing is drawn from.  A source package file name carries no
\* epoch, so b1 and b2 are two builds of the same source package file.  A
\* build that has not ended has no end timestamp, and until its source package
\* is imported it has no name, version or URL either (b5 is listed importing,
\* then running).
BuildPool ==
    { Build("b1", "succeeded", "pkg", V1, SrpmUrl("b1", "pkg", V1), 2, <<X86>>),
      Build("b2", "succeeded", "pkg", E7V1, SrpmUrl("b2", "pkg", V1), 1, <<X86, ARM>>),
      Build("b3", "failed", "pkg", V1, SrpmUrl("b3", "pkg", V1), 3, <<X86>>),
      Build("b4", "canceled", "pkg", V2, SrpmUrl("b4", "pkg", V2), 1, <<X86>>),
      Build("b5", "importing", "", NoVersion, NoUrl, 0, <<X86>>),
      Build("b5", "running", "pkg", V2, SrpmUrl("b5", "pkg", V2), 0, <<X86>>),
      Build("b6", "pending", "other", V1, NoUrl, 0, <<X86>>),
      Build("b6", "succeeded", "other", V1, SrpmUrl("b6", "other", V1), 3, <<X86>>) }

RECURSIVE ListingsOfLen(_)
ListingsOfLen(n) ==
    IF n = 0 THEN { <<>> }
    ELSE { Append(l, b) : l \in ListingsOfLen(n - 1), b \in BuildPool }

DistinctIds(l) == \A i, j \in 1..Len(l) : i # j => l[i].id # l[j].id

\* r.json().get("items", []): any listing of at most MaxBuilds builds.
Listings ==
    { l \in UNION { ListingsOfLen(n) : n \in 0..MaxBuilds } : DistinctIds(l) }

\* ------------------------------------------------------------ state
VARIABLES
    \* parsed command line (lines 37-46)
    tag, tag_to_version_re, clobber_assets, ignore_epoch, wait_build,
    \* control: the statement main is at, and the exit status once it has ended
    pc, exit_status,
    \* get_builds: the listing last fetched, the index of the build being
    \* scanned, the version -> arch -> record map, the fetches and sleeps of
    \* the call so far
    builds, bi, build_metadata, scans, sleeps,
    \* history of the get_builds call: the build each retained record was made from and
    \* the HEAD status of its source URL; every build the scan merged into the
    \* map; the builds that made the scan sleep and restart
    origin, accepted, waited_for,
    \* artifact resolver: the versions still to resolve, version -> set of
    \* (file name, URL)
    todo, version_files,
    \* tag loop: the tags still to process (the first is the current one), the
    \* version of the current tag, whether its release was found
    tags, rpm_version, release_found,
    \* downloader: tasks submitted and not yet picked up, tasks a worker is
    \* running, the results collected so far
    queue, inflight, upload_files,
    \* history of main: the release CLI calls issued, in order, the
    \* downloads started, per tag, and the list get_tags returned
    gh_calls, downloads, tag_list,
    \* history of the artifact resolver: (version, architecture, status) of the
    \* manifest requests, kept until the resolver is done
    manifest_log

cfgVars == <<tag, tag_to_version_re, clobber_assets, ignore_epoch, wait_build>>
buildVars == <<builds, bi, build_metadata, scans, sleeps>>
histVars == <<origin, accepted, waited_for>>
resolveVars == <<todo, version_files, manifest_log>>
tagVars == <<tags, rpm_version, release_found>>
dlVars == <<queue, inflight, upload_files>>
logVars == <<gh_calls, downloads, tag_list>>
mainVars == <<resolveVars, tagVars, dlVars, logVars>>
vars == <<cfgVars, pc, exit_status, buildVars, histVars, mainVars>>

NoTag == <<>>
NoRe == "none"

\* ------------------------------------------------------------ get_builds
HeadStatus == {200, 404}

\* check_url_exists, given the status the HEAD request answered with.
check_url_exists(status) == status = 200

\* Mutant: the test for failed builds is lost.
IsFailed_Never(build) == FALSE

IsFailed(build) == build.state = "failed"

\* Mutant: the package filter is lost.
OtherPackage_Never(build) == FALSE

\* (build_package_name := build["source_package"]["name"]) and build_package_name != package_name
OtherPackage(build) ==
    /\ build.source_package.name # ""
    /\ build.source_package.name # package_name

\* Mutant: the epoch is kept whatever --no-ignore-epoch says.
get_version_KeepEpoch(build) == build.source_package.version

get_version(build) ==
    LET ver == build.source_package.version IN
    IF ver = <<>> THEN ver
    ELSE IF ignore_epoch /\ IndexOf(ver, ":", 1) # 0
         THEN SubSeq(ver, IndexOf(ver, ":", 1) + 1, Len(ver))
         ELSE ver

\* Mutant: every state but "succeeded" counts as not ended.
NonTerminal_NotSucceeded(build) ==
    \/ build.state # "succeeded"
    \/ build.ended_on = 0

NonTerminal(build) ==
    \/ build.state \in {"pending", "importing", "starting", "running"}
    \/ build.ended_on = 0

BuildRecord(build) ==
    [id |-> build.id,
     dir_id |-> basename(dirname(build.source_package.url)),
     version |-> get_version(build),
     ended_on |-> build.ended_on,
     source_rpm |-> build.source_package.url,
     package_name |-> build.source_package.name,
     repo_url |-> build.repo_url]

\* Mutant: the comparison is turned round.
Newer_Reversed(bm, existing_bm) == bm.ended_on < existing_bm.ended_on

\* bm["ended_on"] > existing_bm["ended_on"]
Newer(bm, existing_bm) == bm.ended_on > existing_bm.ended_on

RECURSIVE MergeArches(_, _, _, _)
\* for arch in arches: setdefault, then replace an older record.
MergeArches(version_arches, arches, i, bm) ==
    IF i > Len(arches) THEN version_arches
    ELSE LET arch == arches[i]
             next == IF arch \notin DOMAIN version_arches
                     THEN version_arches @@ (arch :> bm)
                     ELSE IF Newer(bm, version_arches[arch])
                          THEN [version_arches EXCEPT ![arch] = bm]
                          ELSE version_arches
         IN MergeArches(next, arches, i + 1, bm)

EmptyDict == <<>>

\* build_metadata.setdefault(version, {}) followed by the loop over arches.
MergeBuild(metadata, build) ==
    LET bm == BuildRecord(build)
        version == bm.version
        old == IF version \in DOMAIN metadata THEN metadata[version] ELSE EmptyDict
        new == MergeArches(old, build.chroots, 1, bm)
    IN IF version \in DOMAIN metadata
       THEN [metadata EXCEPT ![version] = new]
       ELSE metadata @@ (version :> new)

\* The (version, arch) keys of a version -> arch -> record map.
Keys(metadata) ==
    UNION { { <<v, a>> : a \in DOMAIN metadata[v] } : v \in DOMAIN metadata }

\* History: the keys whose retained record the merge of `build` set or replaced.
Retained(old, new) ==
    { k \in Keys(new) : k \notin Keys(old) \/ new[k[1]][k[2]] # old[k[1]][k[2]] }

\* An unhandled exception: the run ends with the interpreter's status 1.
Abort ==
    /\ pc' = "done"
    /\ exit_status' = 1

\* s.get(build/list); raise_for_status(); builds = r.json().get("items", [])
FetchBuilds ==
    /\ pc = "fetch"
    /\ scans < MaxScans
    /\ \/ \E listing \in Listings :
             /\ builds' = listing
             /\ bi' = 1
             /\ scans' = scans + 1
             /\ pc' = "scan"
             /\ UNCHANGED exit_status
       \/ \* raise_for_status() raises
          /\ Abort
          /\ UNCHANGED <<builds, bi, scans>>
    /\ UNCHANGED <<cfgVars, build_metadata, sleeps, histVars, mainVars>>

\* The same request when the number of polls is not bounded: the listing is
\* fetched again for as long as the loop retries, and `scans` counts the
\* fetches up to MaxScans.
PollBuilds ==
    /\ pc = "fetch"
    /\ \/ \E listing \in Listings :
             /\ builds' = listing
             /\ bi' = 1
             /\ scans' = Min(scans + 1, MaxScans)
             /\ pc' = "scan"
             /\ UNCHANGED exit_status
       \/ \* raise_for_status() raises
          /\ Abort
          /\ UNCHANGED <<builds, bi, scans>>
    /\ UNCHANGED <<cfgVars, build_metadata, sleeps, histVars, mainVars>>

\* Mutant: `retry = True` is lost, so the break ends the while loop too.
AfterSleep_NoRetry == "resolve"

\* retry = True ... break: the while loop runs again, from the fetch.
AfterSleep == "fetch"

\* One iteration of `for build in builds` (lines 68-117).
ScanBuild ==
    /\ pc = "scan"
    /\ bi <= Len(builds)
    /\ LET build == builds[bi] IN
       IF IsFailed(build) \/ OtherPackage(build)
       THEN \* continue
            /\ bi' = bi + 1
            /\ UNCHANGED <<pc, exit_status, builds, build_metadata, sleeps, histVars>>
       ELSE IF NonTerminal(build)
       THEN IF wait_build
            THEN \* retry = True; sleep(spin_loop_delay); break
                 /\ sleeps' = Min(sleeps + 1, MaxScans)
                 /\ waited_for' = waited_for \cup {build}
                 /\ pc' = AfterSleep
                 /\ builds' = <<>>
                 /\ bi' = 0
                 /\ UNCHANGED <<exit_status, build_metadata, origin, accepted>>
            ELSE \* continue
                 /\ bi' = bi + 1
                 /\ UNCHANGED <<pc, exit_status, builds, build_metadata, sleeps, histVars>>
       ELSE IF build.source_package.url = NoUrl
       THEN \* dirname(None) raises TypeError
            /\ Abort
            /\ UNCHANGED <<builds, bi, build_metadata, sleeps, histVars>>
       ELSE \E status \in HeadStatus :
            IF ~check_url_exists(status)
            THEN \* continue
                 /\ bi' = bi + 1
                 /\ UNCHANGED <<pc, exit_status, builds, build_metadata, sleeps, histVars>>
            ELSE LET new == MergeBuild(build_metadata, build) IN
                 /\ build_metadata' = new
                 /\ origin' = [k \in Keys(new) |->
                                  IF k \in Retained(build_metadata, new)
                                  THEN [build |-> build, head |-> status]
                                  ELSE origin[k]]
                 /\ accepted' = accepted \cup {build}
                 /\ bi' = bi + 1
                 /\ UNCHANGED <<pc, exit_status, builds, sleeps, waited_for>>
    /\ UNCHANGED <<cfgVars, scans, mainVars>>

\* The for loop ended without a break: retry is False, return build_metadata.
\* The locals of the call, and the history kept of it, end with the call.
ReturnBuilds ==
    /\ pc = "scan"
    /\ bi > Len(builds)
    /\ pc' = "resolve"
    /\ builds' = <<>>
    /\ bi' = 0
    /\ scans' = 0
    /\ sleeps' = 0
    /\ origin' = <<>>
    /\ accepted' = {}
    /\ waited_for' = {}
    /\ todo' = DOMAIN build_metadata
    /\ UNCHANGED <<cfgVars, exit_status, build_metadata, version_files, manifest_log,
                   tagVars, dlVars, logVars>>

\* ------------------------------------------------------------ artifact resolver
get_build_dir_name(build, platform_arch) ==
    << <<build.repo_url>>, platform_arch, build.dir_id \o <<"-", build.package_name>> >>

\* The epoch test of the rpm name: `epoch + ':'` with a number or `epoch > 1`
\* with a string both raise TypeError, so a manifest entry with an epoch above 1
\* ends the run.
EpochRaises(build_result) == build_result.epoch # 0 /\ build_result.epoch > 1

rpm_name(build_result) ==
    <<build_result.name, "-", build_result.version, "-", build_result.release,
      ".", build_result.arch, ".rpm">>

\* (file name, URL) of one manifest entry.
get_arch_url(build, platform_arch, build_result) ==
    LET platform == SubSeq(platform_arch, 1, RIndexOf(platform_arch, "-", Len(platform_arch)) - 1)
    IN << platform \o <<"-">> \o rpm_name(build_result),
          Append(get_build_dir_name(build, platform_arch), rpm_name(build_result)) >>

Pkg(arch, epoch) ==
    [name |-> "pkg", version |-> "1", release |-> "1", epoch |-> epoch, arch |-> arch]

\* r.json()["packages"] of a results manifest.
Manifests ==
    { << Pkg("src", 0), Pkg("noarch", 0) >>,
      << Pkg("x86_64", 2) >> }

\* What the manifest request and the HEAD checks of its entries answer.
ManifestResponses ==
    { [status |-> st, packages |-> <<>>, heads |-> <<>>] : st \in {404, 500} }
    \cup UNION { { [status |-> 200, packages |-> m, heads |-> h] :
                     h \in [1..Len(m) -> HeadStatus] } : m \in Manifests }

\* Mutant: raise_for_status() is called on every answer, 404 included.
ManifestRaises_On404(resp) == resp.status # 200

\* get_build_results: [] on 404, raise_for_status() otherwise.
ManifestRaises(resp) == resp.status # 404 /\ resp.status # 200
get_build_results(resp) == IF resp.status = 404 THEN <<>> ELSE resp.packages

\* The entries one architecture adds to `files`.
ArchFiles(arch_bm, arch, resp) ==
    { <<basename(arch_bm.source_rpm), arch_bm.source_rpm>> }
    \cup { get_arch_url(arch_bm, arch, get_build_results(resp)[i]) :
             i \in { j \in 1..Len(get_build_results(resp)) :
                       /\ get_build_results(resp)[j].arch # "src"
                       /\ check_url_exists(resp.heads[j]) } }

ArchRaises(resp) ==
    \/ ManifestRaises(resp)
    \/ \E j \in 1..Len(get_build_results(resp)) :
          /\ get_build_results(resp)[j].arch # "src"
          /\ EpochRaises(get_build_results(resp)[j])

\* `files` of one version: a set of (file name, URL) tuples.
VersionFiles(build, resps) ==
    UNION { ArchFiles(build[arch], arch, resps[arch]) : arch \in DOMAIN build }

\* One iteration of `for k, build in build_metadata.items()` (lines 145-159).
\* The order of the iterations does not change the map the loop ends with.
ResolveVersion ==
    /\ pc = "resolve"
    /\ todo # {}
    /\ LET k == CHOOSE v \in todo : TRUE
           build == build_metadata[k]
       IN \E resps \in [DOMAIN build -> ManifestResponses] :
             /\ manifest_log' = manifest_log
                   \cup { <<k, arch, resps[arch].status>> : arch \in DOMAIN build }
             /\ IF \E arch \in DOMAIN build : ArchRaises(resps[arch])
                THEN /\ Abort
                     /\ UNCHANGED <<todo, version_files>>
                ELSE /\ todo' = todo \ {k}
                     /\ version_files' =
                           IF VersionFiles(build, resps) # {}
                           THEN version_files @@ (k :> VersionFiles(build, resps))
                           ELSE version_files
                     /\ UNCHANGED <<pc, exit_status>>
    /\ UNCHANGED <<cfgVars, buildVars, histVars, tagVars, dlVars, logVars>>

\* ------------------------------------------------------------ tag mapper
Tv1 == <<"v", "1">>
Tv2 == <<"v", "2">>
T1 == <<"1">>

\* The tags of the repository: with ^v(.*)$ the first does not match, without
\* a regular expression it is the only one that names a version.
RepoTags == {T1, Tv1, Tv2}

\* run(git tag -l).splitlines(): at most MaxTags distinct tags, in the order
\* git is configured to list them in (tag.sort).
GitTagLists ==
    { l \in UNION { [1..n -> RepoTags] : n \in 0..MaxTags } :
        \A i, j \in 1..Len(l) : i # j => l[i] # l[j] }

\* The regular expression ^v(.*)$ : whether it matches, and its group 1.
ReMatches(t) == Len(t) > 0 /\ t[1] = "v"
ReGroup1(t) == Tail(t)

\* tag_to_version_re.match(tag)[1] raises TypeError when there is no match.
NormalizeRaises(t) == tag_to_version_re # NoRe /\ ~ReMatches(t)

\* Mutant: the whole match (group 0) is taken for the version.
normalize_tag_WholeMatch(t) == t

\* tag_to_version_re.match(tag)[1] if a regular expression was given, else tag.
normalize_tag(t) == IF tag_to_version_re # NoRe THEN ReGroup1(t) ELSE t

\* get_tags, given the lines `git tag -l` printed.
get_tags(lines) == IF tag # NoTag THEN <<tag>> ELSE lines

\* if fetch_tags: run(git fetch --tags); then get_tags().  --fetch-tags is read
\* here and nowhere else, so the flag is drawn where it is read.
GetTags ==
    /\ pc = "resolve"
    /\ todo = {}
    /\ \E fetch_tags \in BOOLEAN, fetched \in BOOLEAN, listed \in BOOLEAN,
          lines \in GitTagLists :
          IF (fetch_tags /\ ~fetched) \/ (tag = NoTag /\ ~listed)
          THEN \* CalledProcessError from git
               /\ Abort
               /\ UNCHANGED <<tags, tag_list>>
          ELSE /\ tags' = get_tags(lines)
               /\ tag_list' = get_tags(lines)
               /\ pc' = "tag"
               /\ UNCHANGED exit_status
    /\ manifest_log' = {}
    /\ UNCHANGED <<cfgVars, buildVars, histVars, todo, version_files, rpm_version,
                   release_found, dlVars, gh_calls, downloads>>

\* ------------------------------------------------------------ release publisher
NoVersionYet == <<"?">>

\* sys.exit(100) raises NameError unless sys is imported.
NoAssetsExit == IF "sys" \in ImportedModules THEN 100 ELSE 1

\* Mutant: the run ends at a tag without assets also when no --tag was given.
AfterNoAssets_AlwaysExit == "done"

\* if tag: sys.exit(100), else continue with the next tag.
AfterNoAssets == IF tag # NoTag THEN "done" ELSE "tag"

\* The tag loop has run out: main returns.
Finish ==
    /\ pc = "tag"
    /\ tags = <<>>
    /\ pc' = "done"
    /\ exit_status' = 0
    /\ UNCHANGED <<cfgVars, buildVars, histVars, mainVars>>

\* Lines 192-202: the top of one iteration of the tag loop.
ProcessTag ==
    /\ pc = "tag"
    /\ tags # <<>>
    /\ LET current_tag == Head(tags) IN
       IF NormalizeRaises(current_tag)
       THEN /\ Abort
            /\ UNCHANGED <<tags, rpm_version>>
       ELSE IF normalize_tag(current_tag) \notin DOMAIN version_files
       THEN \* "no asset files found": sys.exit(100), or continue
            /\ pc' = AfterNoAssets
            /\ exit_status' = IF AfterNoAssets = "done" THEN NoAssetsExit ELSE exit_status
            /\ tags' = IF AfterNoAssets = "done" THEN tags ELSE Tail(tags)
            /\ UNCHANGED rpm_version
       ELSE /\ rpm_version' = normalize_tag(current_tag)
            /\ pc' = "view"
            /\ UNCHANGED <<exit_status, tags>>
    /\ UNCHANGED <<cfgVars, buildVars, histVars, resolveVars, release_found, dlVars, logVars>>

RECURSIVE strip(_)
\* str.strip(): drop the whitespace at both ends.
strip(out) ==
    IF out = <<>> THEN out
    ELSE IF Head(out) \in {" ", "\n"} THEN strip(Tail(out))
    ELSE IF out[Len(out)] \in {" ", "\n"} THEN strip(SubSeq(out, 1, Len(out) - 1))
    ELSE out

\* What `gh release view` can answer: exit status and captured output.
ViewResults ==
    { [code |-> 0, output |-> <<"{tagName}", "\n">>],
      [code |-> 1, output |-> <<"release not found", "\n">>],
      [code |-> 1, output |-> <<"HTTP 401: Bad credentials", "\n">>],
      [code |-> 1, output |-> <<>>] }

\* except CalledProcessError as e: if e.output and e.output.strip() != "release not found": raise e
ViewRaises(r) ==
    /\ r.code # 0
    /\ r.output # <<>>
    /\ strip(r.output) # <<"release not found">>

\* Mutant: the create call is lost.
AfterView_NoCreate(found) ==
    IF ~found \/ clobber_assets THEN "get_files" ELSE "tag"

\* Mutant: --clobber-assets is not consulted.
AfterView_AlwaysUpload(found) ==
    IF ~found THEN "create" ELSE "get_files"

\* Lines 212-221: create when the release was not found; download and upload
\* when it was not found or --clobber-assets is given; otherwise the next tag.
AfterView(found) ==
    IF ~found THEN "create"
    ELSE IF clobber_assets THEN "get_files"
    ELSE "tag"

Call(cmd, t, r, files) == [cmd |-> cmd, tag |-> t, result |-> r, files |-> files]

\* Lines 204-210 and the branch on release_found / clobber_assets below them.
ViewRelease ==
    /\ pc = "view"
    /\ \E r \in ViewResults :
          /\ gh_calls' = Append(gh_calls, Call("view", Head(tags), r, EmptyBag))
          /\ IF ViewRaises(r)
             THEN /\ Abort
                  /\ UNCHANGED <<release_found, tags>>
             ELSE /\ release_found' = (r.code = 0)
                  /\ pc' = AfterView(r.code = 0)
                  /\ tags' = IF AfterView(r.code = 0) = "tag" THEN Tail(tags) ELSE tags
                  /\ UNCHANGED exit_status
    /\ UNCHANGED <<cfgVars, buildVars, histVars, resolveVars, rpm_version, dlVars, downloads,
                   tag_list>>

ExitCodes == {0, 1}

\* exe(gh release create <tag> --verify-tag --generate-notes)
\* Mutant: the exit status of the command is not looked at (subprocess.call).
check_call_raises_Never(code) == FALSE

\* exe is subprocess.check_call: CalledProcessError on a non-zero exit status.
check_call_raises(code) == code # 0

CreateRelease ==
    /\ pc = "create"
    /\ \E code \in ExitCodes :
          /\ gh_calls' = Append(gh_calls,
                Call("create", Head(tags), [code |-> code, output |-> <<>>], EmptyBag))
          /\ IF check_call_raises(code)
             THEN Abort
             ELSE pc' = "get_files" /\ UNCHANGED exit_status
    /\ UNCHANGED <<cfgVars, buildVars, histVars, resolveVars, tagVars, dlVars, downloads,
                   tag_list>>

\* ------------------------------------------------------------ downloader
tmp_dir == <<"tmp">>

\* f"{rpm_assets_dir}/{file_name}" with rpm_assets_dir = f"{tmp_dir}/{rpm_version}"
rpm_asset(version, file_name) == <<tmp_dir, version, file_name>>

\* get_file's result, f"{rpm_asset}#{file_name}"
Asset(version, file) == [path |-> rpm_asset(version, file[1]), name |-> file[1]]

\* get_files: tpe.map submits one task per entry of version_files[rpm_version];
\* the pool starts a worker per task up to max_workers.
GetFiles ==
    /\ pc = "get_files"
    /\ LET tasks == version_files[rpm_version] IN
       \E started \in SUBSET tasks :
          /\ Cardinality(started) = Min(Cardinality(tasks), max_workers)
          /\ inflight' = started
          /\ queue' = tasks \ started
          /\ downloads' = downloads \cup { <<Head(tags), f>> : f \in started }
    /\ upload_files' = EmptyBag
    /\ pc' = "download"
    /\ UNCHANGED <<cfgVars, exit_status, buildVars, histVars, resolveVars, tagVars, gh_calls,
                   tag_list>>

\* A worker ends get_file (raise_for_status, then the write of the file); on
\* success its result joins the list and the worker takes the next task.
FinishDownload ==
    /\ pc = "download"
    /\ \E f \in inflight, ok \in BOOLEAN :
          IF ~ok
          THEN /\ Abort
               /\ UNCHANGED <<dlVars, downloads>>
          ELSE /\ upload_files' = upload_files (+) SetToBag({Asset(rpm_version, f)})
               /\ \E next \in SUBSET queue :
                     /\ Cardinality(next) = Min(Cardinality(queue), 1)
                     /\ queue' = queue \ next
                     /\ inflight' = (inflight \ {f}) \cup next
                     /\ downloads' = downloads \cup { <<Head(tags), g>> : g \in next }
               /\ UNCHANGED <<pc, exit_status>>
    /\ UNCHANGED <<cfgVars, buildVars, histVars, resolveVars, tagVars, gh_calls, tag_list>>

\* Mutant: the upload does not wait for the results of the pool.
ResultsComplete_Early == TRUE

\* list(get_files(rpm_version)) has every result of tpe.map: no task of the
\* tag is queued or running.
ResultsComplete == inflight = {} /\ queue = {}

\* exe(gh release upload <tag> <files> --clobber), once list() has every result.
UploadFiles ==
    /\ pc = "download"
    /\ ResultsComplete
    /\ \E code \in ExitCodes :
          /\ gh_calls' = Append(gh_calls,
                Call("upload", Head(tags), [code |-> code, output |-> <<>>], upload_files))
          /\ IF check_call_raises(code)
             THEN Abort /\ UNCHANGED tags
             ELSE pc' = "tag" /\ tags' = Tail(tags) /\ UNCHANGED exit_status
    /\ UNCHANGED <<cfgVars, buildVars, histVars, resolveVars, rpm_version, release_found,
                   dlVars, downloads, tag_list>>

\* ------------------------------------------------------------ specification
Init ==
    /\ tag \in {NoTag, Tv1}
    /\ tag_to_version_re \in {NoRe, "^v(.*)$"}
    /\ clobber_assets \in BOOLEAN
    /\ ignore_epoch \in BOOLEAN
    \* --wait-build is store_true with default=True: it is True on every command line
    /\ wait_build = TRUE
    /\ pc = "fetch"
    /\ exit_status = -1
    /\ builds = <<>>
    /\ bi = 0
    /\ build_metadata = EmptyDict
    /\ scans = 0
    /\ sleeps = 0
    /\ origin = <<>>
    /\ accepted = {}
    /\ waited_for = {}
    /\ todo = {}
    /\ version_files = EmptyDict
    /\ tags = <<>>
    /\ rpm_version = NoVersionYet
    /\ release_found = FALSE
    /\ queue = {}
    /\ inflight = {}
    /\ upload_files = EmptyBag
    /\ gh_calls = <<>>
    /\ downloads = {}
    /\ tag_list = <<>>
    /\ manifest_log = {}

Next ==
    \/ FetchBuilds
    \/ ScanBuild
    \/ ReturnBuilds
    \/ ResolveVersion
    \/ GetTags
    \/ Finish
    \/ ProcessTag
    \/ ViewRelease
    \/ CreateRelease
    \/ GetFiles
    \/ FinishDownload
    \/ UploadFiles

Spec == Init /\ [][Next]_vars

\* get_builds alone, called by the default command line, with no bound on the
\* number of polls.  The program is sequential and every request, sleep and
\* loop step returns, so a step that can be taken is taken.
InitWait ==
    /\ Init
    /\ tag = NoTag
    /\ tag_to_version_re = NoRe
    /\ ~clobber_assets
    /\ ignore_epoch

NextWait ==
    \/ PollBuilds
    \/ ScanBuild
    \/ ReturnBuilds

SpecWait == InitWait /\ [][NextWait]_vars /\ WF_vars(NextWait)

\* ------------------------------------------------------------ properties
\* The state get_builds returns from: the scan of the last listing ran to its end.
ScanFinished == pc = "scan" /\ bi > Len(builds)

ViewCalls == { i \in 1..Len(gh_calls) : gh_calls[i].cmd = "view" }
UploadCalls == { i \in 1..Len(gh_calls) : gh_calls[i].cmd = "upload" }

\* The view call answered with the "release not found" error.
ViewAbsent(c) ==
    c.cmd = "view" /\ c.result.code # 0 /\ strip(c.result.output) = <<"release not found">>

\* One asset argument per (file name, URL) entry of the tag's artifact set.
ExpectedAssets(t) ==
    LET v == normalize_tag(t)
        files == version_files[v]
    IN [a \in { Asset(v, f) : f \in files } |->
          Cardinality({ f \in files : Asset(v, f) = a })]

\* C1: when the view call of a tag answered "release not found", every upload
\* call for the tag comes after a create call for the tag, is the only upload
\* call for the tag, and carries one asset argument for every entry of the
\* artifact set of the tag's version.
C1_CreateBeforeUpload ==
    \A i \in UploadCalls :
       (\E j \in 1..(i - 1) : ViewAbsent(gh_calls[j]) /\ gh_calls[j].tag = gh_calls[i].tag)
       => /\ \E j \in 1..(i - 1) :
                gh_calls[j].cmd = "create" /\ gh_calls[j].tag = gh_calls[i].tag
          /\ \A j \in UploadCalls : gh_calls[j].tag = gh_calls[i].tag => j = i
          /\ normalize_tag(gh_calls[i].tag) \in DOMAIN version_files
          /\ gh_calls[i].files = ExpectedAssets(gh_calls[i].tag)
          /\ BagCardinality(gh_calls[i].files)
                = Cardinality(version_files[normalize_tag(gh_calls[i].tag)])

\* A release that was not found has been created and has received several assets.
C1_Witness ==
    \E i \in UploadCalls :
       /\ gh_calls[i].result.code = 0
       /\ BagCardinality(gh_calls[i].files) > 1
       /\ \E j \in 1..(i - 1) : ViewAbsent(gh_calls[j]) /\ gh_calls[j].tag = gh_calls[i].tag

\* C2: without --clobber-assets, a tag whose view call succeeded gets no create
\* call, no upload call and no download.
C2_ExistingReleaseUntouched ==
    ~clobber_assets =>
       \A i \in ViewCalls :
          gh_calls[i].result.code = 0
          => /\ \A j \in 1..Len(gh_calls) :
                   gh_calls[j].tag = gh_calls[i].tag => gh_calls[j].cmd = "view"
             /\ \A d \in downloads : d[1] # gh_calls[i].tag

\* An existing release was skipped and the next tag went on to its upload.
C2_Witness ==
    /\ ~clobber_assets
    /\ \E i \in ViewCalls :
          /\ gh_calls[i].result.code = 0
          /\ \E j \in UploadCalls : j > i

\* C3: a run with an explicit tag whose version has no artifact set ends with
\* exit status 100.
C3_ExplicitTagWithoutAssetsExits100 ==
    ( /\ pc = "done"
      /\ tag # NoTag
      /\ tags = <<tag>>
      /\ gh_calls = <<>>
      /\ ~NormalizeRaises(tag)
      /\ normalize_tag(tag) \notin DOMAIN version_files )
    => exit_status = 100

\* C4: no two entries of a version's artifact set share a file name.
C4_DedupByFilename ==
    \A v \in DOMAIN version_files :
       \A f, g \in version_files[v] : f[1] = g[1] => f = g

\* C5: a failed view call that did not answer "release not found" is re-raised:
\* it is the last release CLI call of the run, which ends with an error.
C5_OnlyNotFoundMeansAbsent ==
    \A i \in ViewCalls :
       (gh_calls[i].result.code # 0 /\ ~ViewAbsent(gh_calls[i]))
       => /\ i = Len(gh_calls)
          /\ pc = "done"
          /\ exit_status = 1

\* A build the claims of the collector call accepted: not failed, of the
\* target package, ended; the scan merges a build only after its source URL
\* answered the HEAD check.
TerminalTargetBuild(b) ==
    /\ b.state \notin {"failed", "pending", "importing", "starting", "running"}
    /\ b.source_package.name = package_name
    /\ b.ended_on # 0

\* C6: when get_builds returns, the record retained for a (version, arch) key
\* ended no earlier than any accepted build of that version that lists that
\* arch, in this scan or an earlier one.
C6_LatestEndedRetained ==
    ScanFinished =>
       \A k \in Keys(build_metadata) : \A b \in accepted :
          ( /\ TerminalTargetBuild(b)
            /\ get_version(b) = k[1]
            /\ \E i \in 1..Len(b.chroots) : b.chroots[i] = k[2] )
          => build_metadata[k[1]][k[2]].ended_on >= b.ended_on

\* After a rescan, b1 is retained for an arch that the older b2 lists too.
C6_Witness ==
    /\ ScanFinished
    /\ scans > 1
    /\ <<V1, X86>> \in Keys(build_metadata)
    /\ build_metadata[V1][X86].id = "b1"
    /\ \E b \in accepted : b.id = "b2" /\ get_version(b) = V1

\* A build of the target package that has not ended.
Unsettled(b) ==
    /\ b.state # "failed"
    /\ b.source_package.name = package_name
    /\ \/ b.state \in {"pending", "importing", "starting", "running"}
       \/ b.ended_on = 0

\* C7: with waiting enabled, get_builds returns only from a scan that ran to the
\* end of a listing holding no unsettled build of the target package, and no
\* release CLI call is issued while get_builds is still fetching or scanning.
C7_ReturnsOnlyWhenSettled ==
    [][ /\ (wait_build /\ pc = "scan" /\ pc' \notin {"scan", "fetch", "done"})
           => /\ bi > Len(builds)
              /\ \A i \in 1..Len(builds) : ~Unsettled(builds[i])
        /\ pc' \in {"scan", "fetch"} => gh_calls' = <<>> ]_vars

\* get_builds is about to return after it slept on a running build of the package.
C7_Witness ==
    /\ ScanFinished
    /\ sleeps > 0
    /\ \E b \in waited_for : Unsettled(b)

\* C8: every retained record comes from a build that succeeded and whose
\* source URL answered the HEAD check with 200.
C8_OnlySucceededAndReachable ==
    \A k \in DOMAIN origin :
       /\ origin[k].build.state = "succeeded"
       /\ origin[k].head = 200

FailedIds == { b.id : b \in { x \in BuildPool : x.state = "failed" } }

\* The build directory a file URL lies in names the build.
UrlBuildId(url) ==
    IF url[1] = <<"srpm-builds">> THEN url[2][1] ELSE url[3][1]

\* C9: a failed build gives no record to the version/arch map and no file to an
\* artifact set, and it never makes the scan sleep and restart.
C9_FailedBuildsExcluded ==
    /\ \A k \in Keys(build_metadata) : build_metadata[k[1]][k[2]].id \notin FailedIds
    /\ \A k \in DOMAIN origin : origin[k].build.state # "failed"
    /\ \A v \in DOMAIN version_files :
          \A f \in version_files[v] : UrlBuildId(f[2]) \notin FailedIds
    /\ \A b \in waited_for : b.state # "failed"

\* A scan ran over a listing with a failed build of a version that has a record.
C9_Witness ==
    /\ ScanFinished
    /\ \E i \in 1..Len(builds) :
          /\ builds[i].state = "failed"
          /\ get_version(builds[i]) \in DOMAIN build_metadata

\* C10 as stated: every record, and every build that made the scan wait, is of
\* the target package.
C10_OnlyTargetPackage ==
    /\ \A k \in Keys(build_metadata) :
          build_metadata[k[1]][k[2]].package_name = package_name
    /\ \A b \in waited_for : b.source_package.name = package_name

\* C10 amended: every record, and every build that made the scan wait, is of
\* the target package or has no package name; a build with another, non-empty
\* package name gives no record and never makes the scan wait.
C10_OnlyTargetOrUnnamed ==
    /\ \A k \in Keys(build_metadata) :
          build_metadata[k[1]][k[2]].package_name \in {package_name, ""}
    /\ \A k \in DOMAIN origin :
          origin[k].build.source_package.name \in {package_name, ""}
    /\ \A b \in waited_for : b.source_package.name \in {package_name, ""}

\* The scan waited for a build without a name and then passed a build of
\* another package.
C10_Witness ==
    /\ pc = "scan"
    /\ \E b \in waited_for : b.source_package.name = ""
    /\ \E i \in 1..(bi - 1) : builds[i].source_package.name = "other"


\* The number of tags of the list whose turn of the loop is over.
TagsDone == Len(tag_list) - Len(tags)

\* The tag resolves to a version that has no artifact set.
NoAssets(t) ==
    /\ tag_to_version_re # NoRe => ReMatches(t)
    /\ (IF tag_to_version_re # NoRe THEN ReGroup1(t) ELSE t) \notin DOMAIN version_files

\* C11: when the tags come from the tag list (no --tag), a listed tag whose
\* version has no artifact set gets no view, create or upload call and no
\* download, and the run never ends at it: the loop goes on to the later tags.
C11_SkippedTagLeavesLaterTags ==
    tag = NoTag =>
       \A n \in 1..Len(tag_list) :
          NoAssets(tag_list[n]) =>
             /\ \A i \in 1..Len(gh_calls) : gh_calls[i].tag # tag_list[n]
             /\ \A d \in downloads : d[1] # tag_list[n]
             /\ pc = "done" => n # TagsDone + 1

\* A listed tag without artifact set was skipped and a later tag of the list
\* has been published.
C11_Witness ==
    /\ tag = NoTag
    /\ \E n, m \in 1..Len(tag_list) :
          /\ n < m
          /\ NoAssets(tag_list[n])
          /\ \E i \in UploadCalls :
                gh_calls[i].tag = tag_list[m] /\ gh_calls[i].result.code = 0


\* The tag does not start with "v": ^v(.*)$ does not match it.
Unmatched(t) == tag_to_version_re # NoRe /\ (t = <<>> \/ Head(t) # "v")

\* C12: with the regular expression ^v(.*)$ the version of a tag is what
\* follows the "v" (<<"v","1">> gives <<"1">>), without one it is the tag
\* itself; the loop never gets past a listed tag the expression does not match:
\* the run has ended with an error once the tag's turn has come, and neither
\* the tag nor any tag after it in the list has a view, create or upload call
\* or a download.
C12_TagVersionOrFatal ==
    /\ \A t \in RepoTags :
          IF tag_to_version_re = NoRe
          THEN normalize_tag(t) = t
          ELSE ~Unmatched(t) => <<"v">> \o normalize_tag(t) = t
    /\ tag_to_version_re # NoRe => normalize_tag(<<"v", "1">>) = <<"1">>
    /\ \A n \in 1..Len(tag_list) :
          Unmatched(tag_list[n]) =>
             /\ TagsDone < n
             /\ (TagsDone = n - 1 /\ pc # "tag") => (pc = "done" /\ exit_status = 1)
             /\ \A m \in n..Len(tag_list) :
                   /\ \A i \in 1..Len(gh_calls) : gh_calls[i].tag # tag_list[m]
                   /\ \A d \in downloads : d[1] # tag_list[m]

\* The run has ended at a listed tag the expression does not match, after the
\* release of an earlier tag of the list was published, and that release's
\* calls are still the whole log.
C12_Witness ==
    /\ pc = "done"
    /\ exit_status = 1
    /\ tags # <<>>
    /\ Unmatched(Head(tags))
    /\ TagsDone > 0
    /\ \E i \in UploadCalls : gh_calls[i].tag = tag_list[1] /\ gh_calls[i].result.code = 0
    /\ \A i \in 1..Len(gh_calls) : gh_calls[i].tag = tag_list[1]


\* Version strings to resolve: without epoch, with one ":", with two, and with
\* nothing before the ":".
VersionSamples ==
    {V1, V2, E7V1, <<"7", ":", "1", ":", "2">>, <<":", "1">>, <<"7", ":">>}

VersionOnly(ver) == [source_package |-> [version |-> ver]]

\* What follows the first ":" of ver.
AfterEpoch(ver) ==
    LET first == CHOOSE i \in 1..Len(ver) :
                    ver[i] = ":" /\ \A j \in 1..(i - 1) : ver[j] # ":"
    IN [k \in 1..(Len(ver) - first) |-> ver[first + k]]

ResolvedVersion(ver) ==
    IF ignore_epoch /\ \E i \in 1..Len(ver) : ver[i] = ":" THEN AfterEpoch(ver) ELSE ver

\* C13: with ignore-epoch on, a version holding ":" resolves to what follows
\* its first ":" (7:1 gives 1) and one without ":" to itself; with
\* ignore-epoch off a version resolves to itself.  Every record is kept under
\* the resolved version of its build, and the builds b1 (version 1) and b2
\* (version 7:1) have the same version key exactly when ignore-epoch is on.
C13_VersionResolution ==
    /\ \A ver \in VersionSamples : get_version(VersionOnly(ver)) = ResolvedVersion(ver)
    /\ ignore_epoch => get_version(VersionOnly(<<"7", ":", "1">>)) = <<"1">>
    /\ ~ignore_epoch => get_version(VersionOnly(<<"7", ":", "1">>)) = <<"7", ":", "1">>
    /\ (get_version(VersionOnly(E7V1)) = get_version(VersionOnly(V1))) <=> ignore_epoch
    /\ \A k \in DOMAIN origin :
          /\ k[1] = ResolvedVersion(origin[k].build.source_package.version)
          /\ build_metadata[k[1]][k[2]].version = k[1]
    /\ \A b1 \in accepted : \A b2 \in accepted :
          (b1.source_package.version = V1 /\ b2.source_package.version = E7V1)
          => ((\E v \in DOMAIN build_metadata :
                  \E a1, a2 \in DOMAIN build_metadata[v] :
                     origin[<<v, a1>>].build = b1 /\ origin[<<v, a2>>].build = b2)
              => ignore_epoch)

\* With ignore-epoch on, the scan has put a build of version 1 and a build of
\* version 7:1 under the one version key 1.
C13_Witness ==
    /\ ScanFinished
    /\ ignore_epoch
    /\ DOMAIN build_metadata = {V1}
    /\ \E a1, a2 \in DOMAIN build_metadata[V1] :
          /\ origin[<<V1, a1>>].build.source_package.version = V1
          /\ origin[<<V1, a2>>].build.source_package.version = E7V1

\* C14: the map get_builds returns after any number of rescans is the map of a
\* scan of the last fetched listing alone: every record of it was accepted
\* from a build of that listing, with the source URL reachable in that scan.
C14_RescanStartsFromScratch ==
    ScanFinished =>
       \A k \in Keys(build_metadata) :
          \E i \in 1..Len(builds) :
             /\ BuildRecord(builds[i]) = build_metadata[k[1]][k[2]]
             /\ builds[i] \in accepted
             /\ \E j \in 1..Len(builds[i].chroots) : builds[i].chroots[j] = k[2]

\* The position of a tag in the list get_tags returned.
TagIndex(t) == CHOOSE n \in 1..Len(tag_list) : tag_list[n] = t

\* The call ends the turn of its tag: a successful upload, or a successful view
\* without --clobber-assets.
EndsTurn(c) ==
    \/ c.cmd = "upload" /\ c.result.code = 0
    \/ c.cmd = "view" /\ c.result.code = 0 /\ ~clobber_assets

\* C15: an upload call carries the result of every download of its tag's
\* artifact set, each of which was started and has succeeded; while a download
\* of the current tag is queued, running or has failed, the tag has no upload
\* call; and tags take their turns one after another: calls appear in list
\* order, no call or download exists for a tag whose turn has not come, and
\* the calls of a tag whose turn is over end with its upload or its skip.
C15_UploadAfterDownloadsTagsInTurn ==
    /\ \A i \in UploadCalls :
          /\ gh_calls[i].files = ExpectedAssets(gh_calls[i].tag)
          /\ \A f \in version_files[normalize_tag(gh_calls[i].tag)] :
                <<gh_calls[i].tag, f>> \in downloads
    /\ (inflight # {} \/ queue # {}) =>
          /\ tags # <<>>
          /\ \A i \in UploadCalls : gh_calls[i].tag # Head(tags)
    /\ \A i, j \in 1..Len(gh_calls) :
          i < j => TagIndex(gh_calls[i].tag) <= TagIndex(gh_calls[j].tag)
    /\ \A i \in 1..Len(gh_calls) :
          /\ TagIndex(gh_calls[i].tag) <= TagsDone + (IF pc = "tag" THEN 0 ELSE 1)
          /\ (i < Len(gh_calls) /\ gh_calls[i + 1].tag # gh_calls[i].tag) => EndsTurn(gh_calls[i])
          /\ (i = Len(gh_calls) /\ TagIndex(gh_calls[i].tag) <= TagsDone) => EndsTurn(gh_calls[i])
    /\ \A d \in downloads :
          /\ d[1] \in { tag_list[n] : n \in 1..Len(tag_list) }
          /\ TagIndex(d[1]) <= TagsDone + (IF pc \in {"download", "done"} THEN 1 ELSE 0)

\* The first tag of the list has been published with several assets, and then
\* a download of the second tag has failed.
C15_Witness ==
    /\ pc = "done"
    /\ inflight # {}
    /\ TagsDone = 1
    /\ \E i \in UploadCalls :
          /\ gh_calls[i].tag = tag_list[1]
          /\ gh_calls[i].result.code = 0
          /\ BagCardinality(gh_calls[i].files) > 1
    /\ \E i \in 1..Len(gh_calls) : gh_calls[i].tag = tag_list[2]

\* C16: at most max_workers downloads are in flight, and no two downloads in
\* flight write to the same destination path of the version's directory.
C16_NoSharedDestination ==
    /\ Cardinality(inflight) <= max_workers
    /\ \A f, g \in inflight :
          f # g => rpm_asset(rpm_version, f[1]) # rpm_asset(rpm_version, g[1])

\* C17: a manifest request answered 404 does not end the run by itself, and
\* once its version is resolved the version has an artifact set that holds the
\* source package file of that architecture's record and no file of that
\* architecture's result directory; a manifest request answered with another
\* error status ends the run with an error, before any release CLI call or
\* download and before any tag is read.
C17_Manifest404EmptyElseFatal ==
    /\ \A e \in manifest_log :
          e[3] = 404 =>
             /\ (pc = "done" /\ e[1] \in todo) =>
                   \E o \in manifest_log : o[1] = e[1] /\ o[3] # 404
             /\ e[1] \notin todo =>
                   /\ e[1] \in DOMAIN version_files
                   /\ LET arch_bm == build_metadata[e[1]][e[2]] IN
                         /\ <<basename(arch_bm.source_rpm), arch_bm.source_rpm>>
                               \in version_files[e[1]]
                         /\ \A f \in version_files[e[1]] :
                               dirname(f[2]) # get_build_dir_name(arch_bm, e[2])
    /\ \A e \in manifest_log :
          e[3] \notin {200, 404} =>
             /\ pc = "done"
             /\ exit_status = 1
             /\ e[1] \in todo
             /\ gh_calls = <<>>
             /\ downloads = {}
             /\ tag_list = <<>>

\* One architecture's manifest was answered 404, the version got its artifact
\* set, and the resolver has gone on to the next version, whose manifest
\* request was answered 500: the run has ended.
C17_Witness ==
    /\ pc = "done"
    /\ \E e, o \in manifest_log :
          /\ e[3] = 404
          /\ e[1] \notin todo
          /\ e[1] \in DOMAIN version_files
          /\ o[3] = 500
          /\ o[1] \in todo

\* A build the scan sleeps on: not failed, named as the target package or not
\* named yet, and not ended.
UnsettledOrUnnamed(b) ==
    /\ b.state # "failed"
    /\ b.source_package.name \in {package_name, ""}
    /\ \/ b.state \in {"pending", "importing", "starting", "running"}
       \/ b.ended_on = 0

\* get_builds is no longer fetching or scanning: it has returned or raised.
LeftLoop == pc \notin {"fetch", "scan"}

\* Each retry has slept once and fetched once: a scan follows one fetch more
\* than there were sleeps, a fetch follows as many sleeps as there were fetches
\* (both counted up to MaxScans).
OneSleepOneFetchPerRescan ==
    /\ pc = "fetch" => sleeps = scans
    /\ pc = "scan" => (sleeps = scans - 1 \/ sleeps = MaxScans)
    /\ pc = "scan" => scans >= 1

\* With waiting disabled the listing is fetched once, nothing is slept on and
\* no record comes from a build that has not ended.
NoWaitScansOnce ==
    ~wait_build =>
       /\ sleeps = 0
       /\ scans <= 1
       /\ pc = "fetch" => scans = 0
       /\ \A k \in DOMAIN origin :
             /\ origin[k].build.state \notin {"pending", "importing", "starting", "running"}
             /\ origin[k].build.ended_on # 0

\* Every listing under scan holds no build the scan sleeps on.
QuietListing ==
    pc = "scan" => \A i \in 1..Len(builds) : ~UnsettledOrUnnamed(builds[i])

\* Every listing under scan holds no unsettled build named as the target package.
QuietTargetListing ==
    pc = "scan" => \A i \in 1..Len(builds) : ~Unsettled(builds[i])

\* C18: with waiting enabled, if from some poll onward every fetched listing
\* holds no build that is not failed, named as the target package or unnamed,
\* and not ended, then get_builds eventually returns (or raises); each rescan
\* sleeps once and fetches once; with waiting disabled the listing is fetched
\* once and builds that have not ended contribute no record.
C18_WaitLoopTerminates ==
    /\ wait_build => (<>[]QuietListing => <>LeftLoop)
    /\ []OneSleepOneFetchPerRescan
    /\ []NoWaitScansOnce

\* C18 as stated: from some poll onward the listings only have to hold no
\* unsettled build named as the target package.
C18_WaitLoopTerminatesTargetOnly ==
    /\ wait_build => (<>[]QuietTargetListing => <>LeftLoop)
    /\ []OneSleepOneFetchPerRescan
    /\ []NoWaitScansOnce

\* After a sleep and a second poll, the scan of a listing that holds an ended
\* build of the package and no build to sleep on has run to its end.
C18_Witness ==
    /\ ScanFinished
    /\ wait_build
    /\ scans = 2
    /\ sleeps = 1
    /\ waited_for # {}
    /\ builds # <<>>
    /\ \A i \in 1..Len(builds) : ~UnsettledOrUnnamed(builds[i])
    /\ \E i \in 1..Len(builds) : TerminalTargetBuild(builds[i])

CreateCalls == { i \in 1..Len(gh_calls) : gh_calls[i].cmd = "create" }

\* C19: when the run has ended, every release it created has received a
\* successful upload, except, when the run ended on an error, the release of
\* the tag the run ended at.
C19_CreatedThenUploadedUnlessAborted ==
    pc = "done" =>
       \A i \in CreateCalls :
          gh_calls[i].result.code = 0 =>
             \/ \E j \in UploadCalls :
                   /\ j > i
                   /\ gh_calls[j].tag = gh_calls[i].tag
                   /\ gh_calls[j].result.code = 0
             \/ /\ exit_status # 0
                /\ tags # <<>>
                /\ gh_calls[i].tag = Head(tags)

\* C19 as stated: when the run has ended, normally or on an error, every
\* release it created has received its upload call.
C19_CreatedThenUploaded ==
    pc = "done" =>
       \A i \in CreateCalls :
          gh_calls[i].result.code = 0 =>
             \E j \in UploadCalls : j > i /\ gh_calls[j].tag = gh_calls[i].tag

\* The release of the first tag was created and received its assets; the
\* release of the second tag was created, then a download failed and the run
\* ended without an upload call for it.
C19_Witness ==
    /\ pc = "done"
    /\ exit_status = 1
    /\ inflight # {}
    /\ TagsDone = 1
    /\ \E i \in CreateCalls : \E j \in UploadCalls :
          /\ gh_calls[i].tag = tag_list[1]
          /\ gh_calls[j].tag = tag_list[1]
          /\ gh_calls[j].result.code = 0
    /\ \E i \in CreateCalls : gh_calls[i].tag = tag_list[2] /\ gh_calls[i].result.code = 0
    /\ \A j \in UploadCalls : gh_calls[j].tag # tag_list[2]


=============================================================================
